---- MODULE Spec2Model ----
(***************************************************************************)
(* Model of packages/themes/tasks/build.js: the generator of the three     *)
(* SCSS artifacts of @carbon/themes (_tokens.scss, _mixins.scss,           *)
(* _theme-maps.scss), and of the carbon--theme mixin that it emits.        *)
(*                                                                         *)
(* Text.  A JavaScript string is modelled at two levels.  Token names and  *)
(* role texts, which the code scans character by character (the name       *)
(* formatter, the names regular expression), are sequences of one          *)
(* character strings.  A generated body is the sequence of its lines (the  *)
(* string split at "\n"); a line is the sequence of the fragments the      *)
(* template literal is made of (its literal pieces and its                 *)
(* interpolations), the empty line being << >>.                            *)
(***************************************************************************)
EXTENDS Naturals, Sequences, FiniteSets, TLC

VARIABLES
    tokenColors,  \* tokens.colors of ../lib: the ordered color-token list
    themes,       \* themes of ../lib: ordered <<name, <<key, value>>...>> pairs
    source,       \* what METADATA_FILE holds (or that it cannot be read)
    parsed,       \* the object yaml.safeLoad returned, mutated in place
    metadata,     \* build's local metadata
    themeMaps,    \* build's local themeMaps
    themeMixin,   \* build's local themeMixin
    tokensFile,   \* build's local tokensFile
    disk,         \* the three files under SCSS_DIR
    formatted,    \* the artifacts prettier.format was called on, in call order
    attempts,     \* fs.writeFile calls per artifact
    log,          \* console.error / reporter output, in order
    pc,           \* position of build() (or of the procedure under test)
    failedAt,     \* the artifact whose format or write failed, 0 if none
    globals,      \* Sass global scope: token variable -> value
    stack,        \* Sass call stack of carbon--theme invocations
    done          \* the top-level include that has just completed

vars == <<tokenColors, themes, source, parsed, metadata, themeMaps, themeMixin,
          tokensFile, disk, formatted, attempts, log, pc, failedAt,
          globals, stack, done>>

buildVars == <<tokenColors, themes, source, parsed, metadata, themeMaps,
               themeMixin, tokensFile, disk, formatted, attempts, log,
               failedAt>>

sassVars == <<globals, stack, done>>

(***************************************************************************)
(* Characters and strings                                                  *)
(***************************************************************************)
numbers == {"0", "1", "2", "3", "4", "5", "6", "7", "8", "9"}

toLowerCase ==
    [c \in {"A", "B", "C", "D", "E", "F", "G", "H", "I", "J", "K", "L", "M",
            "N", "O", "P", "Q", "R", "S", "T", "U", "V", "W", "X", "Y", "Z"} |->
        CASE c = "A" -> "a" [] c = "B" -> "b" [] c = "C" -> "c" [] c = "D" -> "d"
          [] c = "E" -> "e" [] c = "F" -> "f" [] c = "G" -> "g" [] c = "H" -> "h"
          [] c = "I" -> "i" [] c = "J" -> "j" [] c = "K" -> "k" [] c = "L" -> "l"
          [] c = "M" -> "m" [] c = "N" -> "n" [] c = "O" -> "o" [] c = "P" -> "p"
          [] c = "Q" -> "q" [] c = "R" -> "r" [] c = "S" -> "s" [] c = "T" -> "t"
          [] c = "U" -> "u" [] c = "V" -> "v" [] c = "W" -> "w" [] c = "X" -> "x"
          [] c = "Y" -> "y" [] c = "Z" -> "z"]

\* The JavaScript string of a sequence of characters.
RECURSIVE Str(_)
Str(cs) == IF cs = << >> THEN "" ELSE Head(cs) \o Str(Tail(cs))

\* cs.slice(i), 1-based.
SliceFrom(cs, i) == SubSeq(cs, i, Len(cs))

\* array.join(sep) on an array of character sequences.
RECURSIVE Join(_, _)
Join(items, sep) ==
    IF items = << >> THEN << >>
    ELSE IF Len(items) = 1 THEN items[1]
    ELSE items[1] \o sep \o Join(Tail(items), sep)

(***************************************************************************)
(* formatTokenName (../lib): the public, hyphenated name of a token.       *)
(* A separator goes before the digit group, an upper-case letter becomes   *)
(* a separator and its lower-case letter, anything else is passed through. *)
(***************************************************************************)
RECURSIVE formatFrom(_, _)
formatFrom(token, i) ==
    IF i > Len(token) THEN << >>
    ELSE IF token[i] \in numbers THEN <<"-">> \o SliceFrom(token, i)
    ELSE IF token[i] \in DOMAIN toLowerCase
         THEN <<"-", toLowerCase[token[i]]>> \o formatFrom(token, i + 1)
    ELSE <<token[i]>> \o formatFrom(token, i + 1)

formatTokenName(token) == formatFrom(token, 1)

(***************************************************************************)
(* transformMetadata                                                       *)
(***************************************************************************)
\* Optional fields of a metadata entry.  A role is absent, a list of texts,
\* or a YAML scalar (a string, which has no forEach).
NoRole == [kind |-> "absent", items |-> << >>]
RoleList(items) == [kind |-> "list", items |-> items]
ScalarRole == [kind |-> "scalar", items |-> << >>]
NoAlias == [kind |-> "absent", text |-> << >>]
Alias(a) == [kind |-> "name", text |-> a]

\* metadata.tokens.map(token => token.name): the alternatives of namesRegEx,
\* in metadata order.
NamesMut(tokens) == tokenColors
Names(tokens) == [i \in 1..Len(tokens) |-> tokens[i].name]

\* Does alternative name match text at position p?
MatchesAt(text, p, name) ==
    /\ p + Len(name) - 1 <= Len(text)
    /\ SubSeq(text, p, p + Len(name) - 1) = name

\* The regular expression at position p: the first alternative, in order,
\* that matches there (0 if none does).
FirstAlternative(text, p, names) ==
    IF \E k \in 1..Len(names) : MatchesAt(text, p, names[k])
    THEN CHOOSE k \in 1..Len(names) :
            /\ MatchesAt(text, p, names[k])
            /\ \A j \in 1..(k - 1) : ~MatchesAt(text, p, names[j])
    ELSE 0

\* The grave accent (U+0060), which a TLA+ string cannot hold: one character
\* of the model, written as its HTML entity.
Backtick == "&grave;"

\* replaceMap[match]: the last entry of that name decides (all agree).
ReplaceMap(match) == formatTokenName(match)

\* The replacement callback of role.replace.
ReplacementMut(match) == <<Backtick, "$">> \o match \o <<Backtick>>
Replacement(match) == <<Backtick, "$">> \o ReplaceMap(match) \o <<Backtick>>

\* role.replace(namesRegEx, match => ...) with the g flag, scanning from p.
RECURSIVE ReplaceFrom(_, _, _)
ReplaceFrom(text, p, names) ==
    IF p > Len(text) THEN << >>
    ELSE LET k == FirstAlternative(text, p, names) IN
         IF k = 0 THEN <<text[p]>> \o ReplaceFrom(text, p + 1, names)
         ELSE Replacement(names[k])
                \o ReplaceFrom(text, p + Len(names[k]), names)

ReplaceNames(text, names) == ReplaceFrom(text, 1, names)

\* The body of metadata.tokens.forEach for one entry that does not throw.
TransformToken(token, names) ==
    [token EXCEPT
        !.role = IF token.role.kind = "list"
                 THEN RoleList([j \in 1..Len(token.role.items) |->
                                  ReplaceNames(token.role.items[j], names)])
                 ELSE token.role,
        !.alias = IF token.alias.kind = "name"
                  THEN Alias(formatTokenName(token.alias.text))
                  ELSE token.alias]

\* The entry on which forEach throws: the first whose role is truthy and has
\* no forEach (0 if none).
Thrower(tokens) ==
    IF \E i \in 1..Len(tokens) : tokens[i].role.kind = "scalar"
    THEN CHOOSE i \in 1..Len(tokens) :
            /\ tokens[i].role.kind = "scalar"
            /\ \A j \in 1..(i - 1) : tokens[j].role.kind # "scalar"
    ELSE 0

\* transformMetadata(metadata) on a document with a tokens list: whether it
\* threw, and the tokens of the (mutated in place) document afterwards.
transformMetadata(tokens) ==
    LET names == Names(tokens)
        t == Thrower(tokens)
    IN  [threw |-> t # 0,
         tokens |-> [i \in 1..Len(tokens) |->
                       IF t = 0 \/ i < t THEN TransformToken(tokens[i], names)
                       ELSE tokens[i]]]

(***************************************************************************)
(* Text bodies: sequences of lines, a line a sequence of fragments.        *)
(***************************************************************************)
\* The one-line text holding line, and the text "\n".
T(line) == <<line>>
NL == << << >>, << >> >>

\* a + b on two texts: the last line of a continues with the first of b.
TextCat(a, b) ==
    SubSeq(a, 1, Len(a) - 1) \o <<a[Len(a)] \o b[1]>> \o SubSeq(b, 2, Len(b))

\* The text of a template given as its lines, "\n" after each.
RECURSIVE Lines(_)
Lines(ls) == IF ls = << >> THEN T(<< >>)
             ELSE TextCat(TextCat(T(ls[1]), NL), Lines(Tail(ls)))

\* texts.join('\n')
RECURSIVE JoinTexts(_)
JoinTexts(ts) ==
    IF ts = << >> THEN T(<< >>)
    ELSE IF Len(ts) = 1 THEN ts[1]
    ELSE TextCat(TextCat(ts[1], NL), JoinTexts(Tail(ts)))

FILE_BANNER ==
    Lines(<< <<"// Code generated by @carbon/themes. DO NOT EDIT.">>,
             <<"//">>,
             <<"// Copyright IBM Corp. 2018, 2018">>,
             <<"//">>,
             <<"// This source code is licensed under the Apache-2.0 license found in the">>,
             <<"// LICENSE file in the root directory of this source tree.">>,
             <<"//">> >>)

defaultTheme == "white"
defaultThemeMapName == "$carbon--theme"

(***************************************************************************)
(* Theme maps (build, "Create maps for each theme")                        *)
(***************************************************************************)
\* A theme of the collection is <<name, entries>>, entries the ordered
\* <<key, value>> pairs of the theme object (Object.keys order).
ThemeName(th) == th[1]
ThemeEntries(th) == th[2]

\*   ${name}: ${value}, for one key of a theme.
KeyLine(entry) == <<"  ", Str(formatTokenName(entry[1])), ": ", entry[2], ",">>

\* The loop over Object.keys(theme): scssMap grows by one line per key.
RECURSIVE KeyLinesFrom(_, _)
KeyLinesFrom(entries, i) ==
    IF i > Len(entries) THEN T(<< >>)
    ELSE TextCat(TextCat(T(KeyLine(entries[i])), NL),
                 KeyLinesFrom(entries, i + 1))

KeyLinesReversed(entries) ==
    KeyLinesFrom([i \in 1..Len(entries) |-> entries[Len(entries) + 1 - i]], 1)
KeyLines(entries) == KeyLinesFrom(entries, 1)

\* The scssMap of one theme.
ScssMap(th) ==
    TextCat(TextCat(TextCat(
        Lines(<< <<"/// Carbon's ", ThemeName(th), " color theme">>,
                 <<"/// @type Map">>,
                 <<"/// @access public">>,
                 <<"/// @group @carbon/themes">>,
                 <<"$carbon--theme--", ThemeName(th), ": (">> >>),
        KeyLines(ThemeEntries(th))),
        T(<<") !default;">>)),
        NL)

\* Object.keys(themes).map(...).join('\n')
ThemeMaps(ths) == JoinTexts([i \in 1..Len(ths) |-> ScssMap(ths[i])])

\* themeMapsFile
ThemeMapsFile(maps) ==
    TextCat(TextCat(TextCat(TextCat(FILE_BANNER, NL), maps), NL),
        Lines(<< << >>,
                 <<"/// Carbon's default theme">>,
                 <<"/// @type Map">>,
                 <<"/// @access public">>,
                 <<"/// @alias carbon--theme--", defaultTheme>>,
                 <<"/// @group @carbon/themes">>,
                 <<defaultThemeMapName, ": $carbon--theme--", defaultTheme,
                   " !default;">> >>))

(***************************************************************************)
(* The carbon--theme mixin (build, "Create carbon--theme mixin")           *)
(***************************************************************************)
\*     $${name}: map-get($theme, ${name}) !global;
AssignLine(token) ==
    <<"    $", Str(formatTokenName(token)), ": map-get($theme, ",
      Str(formatTokenName(token)), ") !global;">>

RECURSIVE AssignLinesFrom(_, _)
AssignLinesFrom(tokens, i) ==
    IF i > Len(tokens) THEN T(<< >>)
    ELSE TextCat(TextCat(T(AssignLine(tokens[i])), NL),
                 AssignLinesFrom(tokens, i + 1))

ResetBlock ==
    TextCat(Lines(<< <<"  @if $theme != ", defaultThemeMapName, " {">>,
                     <<"    @include carbon--theme;">> >>),
            T(<<"  }">>))

ThemeMixin(tokens) ==
    TextCat(TextCat(TextCat(TextCat(TextCat(TextCat(TextCat(TextCat(TextCat(
        TextCat(
        Lines(<< <<"/// Define theme variables from a map of tokens">>,
                 <<"/// @access public">>,
                 <<"/// @param {Map} $theme [", defaultThemeMapName,
                   "] - Map of theme tokens">>,
                 <<"/// @content Pass in your custom declaration blocks to be used after the token maps set theming variables.">>,
                 <<"///">>,
                 <<"/// @example scss">>,
                 <<"///   // Default usage">>,
                 <<"///   @include carbon--theme();">>,
                 <<"///">>,
                 <<"///   // Alternate styling (not white theme)">>,
                 <<"///   @include carbon--theme($carbon--theme--g90) {">>,
                 <<"///     // declarations...">>,
                 <<"///   }">>,
                 <<"///">>,
                 <<"///   // Inline styling">>,
                 <<"///   @include carbon--theme($carbon--theme--g90) {">>,
                 <<"///     .my-dark-theme {">>,
                 <<"///       // declarations...">>,
                 <<"///     }">>,
                 <<"///   }">>,
                 <<"///">>,
                 <<"/// @group @carbon/themes">>,
                 <<"@mixin carbon--theme($theme: ", defaultThemeMapName,
                   ") {">> >>),
        AssignLinesFrom(tokens, 1)),
        NL), T(<<"  @content;">>)), NL),
        NL), T(<<"  // Reset to default theme after apply in content">>)), NL),
        ResetBlock), NL), T(<<"}">>))

\* mixinsFile
MixinsFile(mixin) ==
    TextCat(TextCat(FILE_BANNER,
                    Lines(<< << >>, <<"@import './theme-maps';">>, << >> >>)),
            mixin)

(***************************************************************************)
(* Token declarations (build, the loop over tokenColors)                   *)
(***************************************************************************)
EmptyMetadata == [hasTokens |-> FALSE, tokens |-> << >>]
NoTokenData == [name |-> << >>, role |-> NoRole, alias |-> NoAlias,
                deprecated |-> FALSE]

\* (metadata.tokens && metadata.tokens.find(tok => tok.name === token)) || {}
TokenDataFirstMut(meta, token) ==
    IF meta.hasTokens /\ meta.tokens # << >> THEN meta.tokens[1] ELSE NoTokenData
TokenDataPrefixMut(meta, token) ==
    IF meta.hasTokens
       /\ \E i \in 1..Len(meta.tokens) : MatchesAt(meta.tokens[i].name, 1, token)
    THEN meta.tokens[CHOOSE i \in 1..Len(meta.tokens) :
                        /\ MatchesAt(meta.tokens[i].name, 1, token)
                        /\ \A j \in 1..(i - 1) :
                              ~MatchesAt(meta.tokens[j].name, 1, token)]
    ELSE NoTokenData
TokenData(meta, token) ==
    IF meta.hasTokens /\ \E i \in 1..Len(meta.tokens) : meta.tokens[i].name = token
    THEN meta.tokens[CHOOSE i \in 1..Len(meta.tokens) :
                        /\ meta.tokens[i].name = token
                        /\ \A j \in 1..(i - 1) : meta.tokens[j].name # token]
    ELSE NoTokenData

\* $${name}: map-get(${defaultThemeMapName}, ${name}) !default;
DeclarationLine(token) ==
    <<"$", Str(formatTokenName(token)), ": map-get(", defaultThemeMapName,
      ", ", Str(formatTokenName(token)), ") !default;">>

TypeBlock ==
    TextCat(Lines(<< <<"/// @type Color">>, <<"/// @access public">> >>),
            T(<<"/// @group @carbon/themes">>))

\* What one iteration of the loop appends to tokensFile.
TokenBlock(meta, token) ==
    LET tokenData == TokenData(meta, token) IN
    TextCat(TextCat(TextCat(TextCat(
        IF tokenData.role.kind # "absent"
        THEN TextCat(TextCat(NL, NL),
                 Lines(<< <<"/// ",
                            Str(Join(tokenData.role.items, <<";", " ">>))>> >>))
        ELSE TextCat(NL, NL),
        TypeBlock),
        IF tokenData.alias.kind # "absent"
        THEN TextCat(NL, T(<<"/// @alias ", Str(tokenData.alias.text)>>))
        ELSE T(<< >>)),
        IF tokenData.deprecated
        THEN TextCat(NL, T(<<"/// @deprecated">>))
        ELSE T(<< >>)),
        TextCat(NL, Lines(<<DeclarationLine(token)>>)))

RECURSIVE TokenBlocksFrom(_, _, _)
TokenBlocksFrom(meta, tokens, i) ==
    IF i > Len(tokens) THEN T(<< >>)
    ELSE TextCat(TokenBlock(meta, tokens[i]),
                 TokenBlocksFrom(meta, tokens, i + 1))

TokensFile(meta, tokens) ==
    TextCat(TextCat(FILE_BANNER,
                    Lines(<< << >>, <<"@import './theme-maps';">>, << >> >>)),
            TokenBlocksFrom(meta, tokens, 1))

(***************************************************************************)
(* Inputs                                                                  *)
(***************************************************************************)
MaxTokens == 2   \* longest color-token list
MaxMeta == 2     \* most entries of metadata.tokens

ui01 == <<"u", "i", "0", "1">>
field == <<"f", "i", "e", "l", "d">>
field01 == <<"f", "i", "e", "l", "d", "0", "1">>
hoverUI == <<"h", "o", "v", "e", "r", "U", "I">>
Sp == <<" ">>

\* Identifiers a color-token list is made of.
TokenPool == {ui01, field, hoverUI}

\* Sequences of at most n elements of S.
RECURSIVE SeqsUpTo(_, _)
SeqsUpTo(S, n) ==
    IF n = 0 THEN {<< >>} ELSE SeqsUpTo(S, n - 1) \cup [1..n -> S]

\* Sequences of at most n distinct elements of S.
DistinctSeqs(S, n) ==
    {q \in SeqsUpTo(S, n) : \A i, j \in 1..Len(q) : i # j => q[i] # q[j]}

\* Entries a metadata document is made of.
EntryPool ==
    { \* refers to itself and to field01
      [name |-> ui01,
       role |-> RoleList(<<ui01 \o Sp \o <<"o", "r">> \o Sp \o field01>>),
       alias |-> NoAlias, deprecated |-> FALSE],
      \* a token of no color-token list, without a role
      [name |-> field01, role |-> NoRole, alias |-> Alias(field),
       deprecated |-> TRUE],
      \* two roles, the second refers to the token itself; its public name
      \* is its identifier
      [name |-> field,
       role |-> RoleList(<< <<"t", "e", "x", "t">>, <<"a">> \o Sp \o field >>),
       alias |-> NoAlias, deprecated |-> FALSE],
      \* refers to ui01 only
      [name |-> hoverUI,
       role |-> RoleList(<< <<"f", "o", "r">> \o Sp \o ui01 >>),
       alias |-> Alias(ui01), deprecated |-> FALSE],
      \* role: a scalar instead of a list
      [name |-> field, role |-> ScalarRole, alias |-> Alias(hoverUI),
       deprecated |-> TRUE] }

\* What METADATA_FILE can be: missing, not YAML, a document without a tokens
\* list, or a document with one.
Sources ==
    {[kind |-> k, tokens |-> << >>] : k \in {"unreadable", "unparsable", "notokens"}}
    \cup {[kind |-> "doc", tokens |-> ts] : ts \in DistinctSeqs(EntryPool, MaxMeta)}

white == <<"white", << <<ui01, "#ffffff">>, <<field, "#f3f3f3">>,
                       <<hoverUI, "#e5e5e5">> >> >>
g10 == <<"g10", << <<field, "#f3f3f3">>, <<hoverUI, "#e5e5e5">>,
                   <<ui01, "#ffffff">> >> >>
g90 == <<"g90", << <<hoverUI, "#4c4c4c">>, <<ui01, "#282828">> >> >>

\* Theme collections: in the order of Object.keys(themes).
ThemesPool == { << >>, <<white, g90>>, <<g90, white, g10>> }

\* Files on disk before the run: none, or those of an earlier run.
Artifacts == 1..3   \* 1: _tokens.scss, 2: _mixins.scss, 3: _theme-maps.scss
Absent == [state |-> "absent", body |-> << >>]
Stale == [state |-> "stale", body |-> << >>]
Partial == [state |-> "partial", body |-> << >>]
Written(text) == [state |-> "written", body |-> text]

\* prettier.format(text, prettierOptions): an external pretty-printer, kept
\* uninterpreted.
Format(text) == <<"prettier.format", text>>

NotBuilt == << >>
NoDone == [arg |-> "none", nested |-> "none", assigned |-> "never"]

Init ==
    /\ tokenColors \in DistinctSeqs(TokenPool, MaxTokens)
    /\ themes \in ThemesPool
    /\ source \in Sources
    /\ parsed = EmptyMetadata
    /\ metadata = EmptyMetadata
    /\ themeMaps = NotBuilt
    /\ themeMixin = NotBuilt
    /\ tokensFile = NotBuilt
    /\ disk \in {[a \in Artifacts |-> Absent], [a \in Artifacts |-> Stale]}
    /\ formatted = << >>
    /\ attempts = [a \in Artifacts |-> 0]
    /\ log = << >>
    /\ pc = "load"
    /\ failedAt = 0
    /\ globals = << >>
    /\ stack = << >>
    /\ done = NoDone

(***************************************************************************)
(* build()                                                                 *)
(***************************************************************************)
\* The try block: what metadata, the parsed document and the error are after
\* it.  The assignment to metadata happens only if nothing threw.
LoadResultMut(src) ==
    IF src.kind = "unreadable"
    THEN [metadata |-> EmptyMetadata, parsed |-> EmptyMetadata, error |-> "ENOENT"]
    ELSE IF src.kind = "unparsable"
    THEN [metadata |-> EmptyMetadata, parsed |-> EmptyMetadata,
          error |-> "YAMLException"]
    ELSE IF src.kind = "notokens"
    THEN [metadata |-> EmptyMetadata, parsed |-> EmptyMetadata,
          error |-> "TypeError"]
    ELSE LET r == transformMetadata(src.tokens)
             doc == [hasTokens |-> TRUE, tokens |-> r.tokens]
         IN  [metadata |-> doc, parsed |-> doc,
              error |-> IF r.threw THEN "TypeError" ELSE "none"]

LoadResult(src) ==
    IF src.kind = "unreadable"
    THEN [metadata |-> EmptyMetadata, parsed |-> EmptyMetadata, error |-> "ENOENT"]
    ELSE IF src.kind = "unparsable"
    THEN [metadata |-> EmptyMetadata, parsed |-> EmptyMetadata,
          error |-> "YAMLException"]
    ELSE IF src.kind = "notokens"
    THEN [metadata |-> EmptyMetadata, parsed |-> EmptyMetadata,
          error |-> "TypeError"]
    ELSE LET r == transformMetadata(src.tokens)
             doc == [hasTokens |-> TRUE, tokens |-> r.tokens]
         IN  [metadata |-> IF r.threw THEN EmptyMetadata ELSE doc,
              parsed |-> doc,
              error |-> IF r.threw THEN "TypeError" ELSE "none"]

\* reporter.info, then the try/catch around the metadata.
LoadMetadata ==
    /\ pc = "load"
    /\ LET r == LoadResult(source) IN
        /\ metadata' = r.metadata
        /\ parsed' = r.parsed
        /\ log' = log \o <<"info: Building scss files for themes...">>
                      \o (IF r.error = "none" THEN << >>
                          ELSE <<"error: " \o r.error>>)
    /\ pc' = "maps"
    /\ UNCHANGED <<tokenColors, themes, source, themeMaps, themeMixin,
                   tokensFile, disk, formatted, attempts, failedAt>>
    /\ UNCHANGED sassVars

BuildThemeMaps ==
    /\ pc = "maps"
    /\ themeMaps' = ThemeMaps(themes)
    /\ pc' = "mixin"
    /\ UNCHANGED <<tokenColors, themes, source, parsed, metadata, themeMixin,
                   tokensFile, disk, formatted, attempts, log, failedAt>>
    /\ UNCHANGED sassVars

BuildThemeMixin ==
    /\ pc = "mixin"
    /\ themeMixin' = ThemeMixin(tokenColors)
    /\ pc' = "tokens"
    /\ UNCHANGED <<tokenColors, themes, source, parsed, metadata, themeMaps,
                   tokensFile, disk, formatted, attempts, log, failedAt>>
    /\ UNCHANGED sassVars

BuildTokensFile ==
    /\ pc = "tokens"
    /\ tokensFile' = TokensFile(metadata, tokenColors)
    /\ pc' = "ensureDir"
    /\ UNCHANGED <<tokenColors, themes, source, parsed, metadata, themeMaps,
                   themeMixin, disk, formatted, attempts, log, failedAt>>
    /\ UNCHANGED sassVars

\* await fs.ensureDir(SCSS_DIR): resolves, or rejects.
EnsureDir ==
    /\ pc = "ensureDir"
    /\ \E ok \in BOOLEAN : pc' = IF ok THEN "write1" ELSE "rejected"
    /\ UNCHANGED <<tokenColors, themes, source, parsed, metadata, themeMaps,
                   themeMixin, tokensFile, disk, formatted, attempts, log,
                   failedAt>>
    /\ UNCHANGED sassVars

\* The body written as artifact a.
Body(a) == CASE a = 1 -> tokensFile
             [] a = 2 -> MixinsFile(themeMixin)
             [] a = 3 -> ThemeMapsFile(themeMaps)

\* Where build() goes after the write of artifact a ended with `outcome`.
AfterWriteMut(a, outcome) ==
    IF a = 3 THEN "report" ELSE IF a = 1 THEN "write2" ELSE "write3"
AfterWrite(a, outcome) ==
    IF outcome # "ok" THEN "rejected"
    ELSE IF a = 3 THEN "report" ELSE IF a = 1 THEN "write2" ELSE "write3"

\* await fs.writeFile(ENTRYPOINT, prettier.format(body, prettierOptions)):
\* prettier throws, or writeFile rejects (leaving the file as it was or
\* partly written), or the file holds the formatted body.
WriteArtifact(a) ==
    /\ pc = CASE a = 1 -> "write1" [] a = 2 -> "write2" [] a = 3 -> "write3"
    /\ \E outcome \in {"ok", "formatThrows", "writeRejects"} :
        /\ formatted' = Append(formatted, a)
        /\ attempts' = IF outcome = "formatThrows" THEN attempts
                       ELSE [attempts EXCEPT ![a] = @ + 1]
        /\ \E left \in {disk[a], Partial} :
              disk' = CASE outcome = "ok" ->
                             [disk EXCEPT ![a] = Written(Format(Body(a)))]
                        [] outcome = "formatThrows" -> disk
                        [] outcome = "writeRejects" -> [disk EXCEPT ![a] = left]
        /\ failedAt' = IF outcome = "ok" THEN failedAt ELSE a
        /\ pc' = AfterWrite(a, outcome)
    /\ UNCHANGED <<tokenColors, themes, source, parsed, metadata, themeMaps,
                   themeMixin, tokensFile, log>>
    /\ UNCHANGED sassVars

WriteTokens == WriteArtifact(1)
WriteMixins == WriteArtifact(2)
WriteMaps == WriteArtifact(3)

\* reporter.success('Done!')
ReportSuccess ==
    /\ pc = "report"
    /\ log' = Append(log, "success: Done!")
    /\ pc' = "done"
    /\ UNCHANGED <<tokenColors, themes, source, parsed, metadata, themeMaps,
                   themeMixin, tokensFile, disk, formatted, attempts, failedAt>>
    /\ UNCHANGED sassVars

\* build().catch(error => console.error(error))
CatchError ==
    /\ pc = "rejected"
    /\ log' = Append(log, "error: build rejected")
    /\ pc' = "failed"
    /\ UNCHANGED <<tokenColors, themes, source, parsed, metadata, themeMaps,
                   themeMixin, tokensFile, disk, formatted, attempts, failedAt>>
    /\ UNCHANGED sassVars

Next ==
    \/ LoadMetadata
    \/ BuildThemeMaps
    \/ BuildThemeMixin
    \/ BuildTokensFile
    \/ EnsureDir
    \/ WriteTokens
    \/ WriteMixins
    \/ WriteMaps
    \/ ReportSuccess
    \/ CatchError

Spec == Init /\ [][Next]_vars

(***************************************************************************)
(* transformMetadata on its own, applied to a document and then to its     *)
(* own output.  transformMetadata rewrites its argument in place and       *)
(* returns it: parsed is the document and metadata what the call returned, *)
(* the same object.                                                        *)
(***************************************************************************)
\* Entries of the documents normalized twice: every identifier with every
\* role text, and the entries above.
RoleTexts == { <<"t", "e", "x", "t">>,
               <<"a">> \o Sp \o field,
               ui01 \o Sp \o <<"o", "r">> \o Sp \o field01,
               <<"o", "n">> \o Sp \o hoverUI }

AliasOf(n) == CASE n = ui01 -> NoAlias
                 [] n = field -> Alias(ui01)
                 [] n = field01 -> Alias(field)
                 [] n = hoverUI -> Alias(hoverUI)

NormEntryPool ==
    EntryPool \cup
    {[name |-> n, role |-> RoleList(<<r>>), alias |-> AliasOf(n),
      deprecated |-> FALSE] :
        n \in {ui01, field, field01, hoverUI}, r \in RoleTexts}

InitNorm ==
    /\ tokenColors = << >>
    /\ themes = << >>
    /\ source \in {[kind |-> "doc", tokens |-> ts] :
                      ts \in SeqsUpTo(NormEntryPool, MaxMeta)}
    /\ parsed = [hasTokens |-> TRUE, tokens |-> source.tokens]
    /\ metadata = EmptyMetadata
    /\ themeMaps = NotBuilt
    /\ themeMixin = NotBuilt
    /\ tokensFile = NotBuilt
    /\ disk = [a \in Artifacts |-> Absent]
    /\ formatted = << >>
    /\ attempts = [a \in Artifacts |-> 0]
    /\ log = << >>
    /\ pc = "pass0"
    /\ failedAt = 0
    /\ globals = << >>
    /\ stack = << >>
    /\ done = NoDone

\* metadata = transformMetadata(document)
FirstPass ==
    /\ pc = "pass0"
    /\ LET r == transformMetadata(parsed.tokens) IN
        /\ parsed' = [parsed EXCEPT !.tokens = r.tokens]
        /\ metadata' = IF r.threw THEN metadata
                       ELSE [hasTokens |-> TRUE, tokens |-> r.tokens]
        /\ pc' = IF r.threw THEN "threw" ELSE "pass1"
    /\ UNCHANGED <<tokenColors, themes, source, themeMaps, themeMixin,
                   tokensFile, disk, formatted, attempts, log, failedAt>>
    /\ UNCHANGED sassVars

\* transformMetadata(metadata): the object the first call returned is the
\* document, rewritten in place again and returned again.
SecondPass ==
    /\ pc = "pass1"
    /\ LET r == transformMetadata(metadata.tokens) IN
        /\ parsed' = [parsed EXCEPT !.tokens = r.tokens]
        /\ metadata' = [metadata EXCEPT !.tokens = r.tokens]
        /\ pc' = IF r.threw THEN "threw" ELSE "pass2"
    /\ UNCHANGED <<tokenColors, themes, source, themeMaps,
                   themeMixin, tokensFile, disk, formatted, attempts, log,
                   failedAt>>
    /\ UNCHANGED sassVars

NextNorm ==
    \/ FirstPass
    \/ SecondPass

SpecNorm == InitNorm /\ [][NextNorm]_vars

(***************************************************************************)
(* The emitted carbon--theme mixin, as Sass runs it.                       *)
(*                                                                         *)
(*   @mixin carbon--theme($theme: $carbon--theme) {                        *)
(*     $<name>: map-get($theme, <name>) !global;   (one per color token)   *)
(*     @content;                                                           *)
(*     @if $theme != $carbon--theme { @include carbon--theme; }            *)
(*   }                                                                     *)
(*                                                                         *)
(* The statements are read off the generated text (themeMixin); the theme  *)
(* maps are those the theme-maps artifact declares.  A content block is    *)
(* the caller's: declarations that use the token variables, assignments    *)
(* of a token variable with !global, and nested                            *)
(* @include carbon--theme(...) { ... }, chosen as it runs.                 *)
(*                                                                         *)
(* A frame is a running include: nested is the argument of the include     *)
(* that returned last into its content block.  done is the top-level       *)
(* include that runs or ran last: assigned tells whether a content block   *)
(* of it has assigned a token variable ("never" if none has), and whether  *)
(* the variables were rebound after the last such assignment ("rebound")   *)
(* or not ("pending").                                                     *)
(***************************************************************************)
MaxDepth == 2    \* deepest nesting of includes written by the caller
MaxItems == 2    \* most items of one content block

\* The Sass map a per-theme declaration of the theme-maps artifact binds.
SassMap(th) ==
    [k \in {Str(formatTokenName(ThemeEntries(th)[i][1])) :
              i \in 1..Len(ThemeEntries(th))} |->
        LET i == CHOOSE i \in 1..Len(ThemeEntries(th)) :
                    Str(formatTokenName(ThemeEntries(th)[i][1])) = k
        IN  ThemeEntries(th)[i][2]]

\* map-get($map, key): null if the map has no such key.
MapGet(map, key) == IF key \in DOMAIN map THEN map[key] ELSE "null"

\* $carbon--theme--<name>
ThemeMap(name) ==
    SassMap(themes[CHOOSE i \in 1..Len(themes) : ThemeName(themes[i]) = name])

\* $carbon--theme: $carbon--theme--white !default;
DefaultMap == ThemeMap(defaultTheme)

ThemeNames == {ThemeName(themes[i]) : i \in 1..Len(themes)}

\* The assignments of the mixin body, in order: <<variable, key>>.
IsAssignLine(line) ==
    /\ Len(line) = 5
    /\ line[1] = "    $"
    /\ line[3] = ": map-get($theme, "
    /\ line[5] = ") !global;"

Assignments(mixin) ==
    LET ls == SelectSeq(mixin, IsAssignLine)
    IN  [i \in 1..Len(ls) |-> <<ls[i][2], ls[i][4]>>]

TokenVariables(mixin) ==
    {Assignments(mixin)[i][1] : i \in 1..Len(Assignments(mixin))}

\* $<name>: map-get($theme, <name>) !global; for each assignment from the
\* i-th on, in order.
RebindFromMut(g, as, i, theme) == g
RECURSIVE RebindFrom(_, _, _, _)
RebindFrom(g, as, i, theme) ==
    IF i > Len(as) THEN g
    ELSE RebindFrom([g EXCEPT ![as[i][1]] = MapGet(theme, as[i][2])],
                    as, i + 1, theme)

\* @if $theme != $carbon--theme
NeedsResetMut(theme) == FALSE
NeedsReset(theme) == theme # DefaultMap

\* The argument of the reset: @include carbon--theme; passes none, so $theme
\* is its default, $carbon--theme.
ResetArgumentMut(theme) == theme
ResetArgument(theme) == DefaultMap

Frame(arg, theme, block, reset) ==
    [arg |-> arg, theme |-> theme, block |-> block, reset |-> reset,
     at |-> "rebind", items |-> 0, nested |-> "none", resets |-> 0]

\* The value a content block assigns: no color of a theme map.
AssignedValue == "red"

Top == stack[Len(stack)]
SetTop(f) == [stack EXCEPT ![Len(stack)] = f]

\* The theme collections of the builds whose mixin is run: one with a theme
\* that differs from the default, one with a theme of another name and the
\* values of the default.
CompiledThemes == { <<white, g90>>, <<g10, white>> }

\* The color-token lists of the builds whose mixin is run.
CompiledTokenLists == {<<ui01>>, <<field, ui01>>}

\* The state a successful build leaves, with no metadata file: the artifacts
\* are on disk and a stylesheet that imports the mixins is compiled.
InitTheme ==
    /\ tokenColors \in CompiledTokenLists
    /\ themes \in CompiledThemes
    /\ source = [kind |-> "unreadable", tokens |-> << >>]
    /\ parsed = EmptyMetadata
    /\ metadata = EmptyMetadata
    /\ themeMaps = ThemeMaps(themes)
    /\ themeMixin = ThemeMixin(tokenColors)
    /\ tokensFile = TokensFile(EmptyMetadata, tokenColors)
    /\ disk = [a \in Artifacts |->
                 Written(Format(
                     CASE a = 1 -> TokensFile(EmptyMetadata, tokenColors)
                       [] a = 2 -> MixinsFile(ThemeMixin(tokenColors))
                       [] a = 3 -> ThemeMapsFile(ThemeMaps(themes))))]
    /\ formatted = <<1, 2, 3>>
    /\ attempts = [a \in Artifacts |-> 1]
    /\ log = <<"info: Building scss files for themes...", "error: ENOENT",
               "success: Done!">>
    /\ pc = "sass"
    /\ failedAt = 0
    /\ globals = [v \in TokenVariables(ThemeMixin(tokenColors)) |-> "undefined"]
    /\ stack = << >>
    /\ done = NoDone

\* @include carbon--theme(...) { ... } written by the caller: at the top
\* level, or as the next item of the content block that is running.  arg ""
\* is the include without an argument; the block may turn out empty.
Include ==
    /\ pc = "sass"
    /\ \/ stack = << >>
       \/ /\ stack # << >>
          /\ Top.at = "content" /\ Top.block /\ Top.items < MaxItems
          /\ ~Top.reset
          /\ Len(stack) < MaxDepth
    /\ \E arg \in ThemeNames \cup {""} :
          stack' = (IF stack = << >> THEN stack
                    ELSE SetTop([Top EXCEPT !.items = @ + 1]))
                   \o <<Frame(arg,
                              IF arg = "" THEN DefaultMap ELSE ThemeMap(arg),
                              TRUE, FALSE)>>
    /\ done' = IF stack = << >> THEN NoDone ELSE done
    /\ UNCHANGED <<globals, pc>>
    /\ UNCHANGED buildVars

\* The assignments at the head of the mixin body.
Rebind ==
    /\ pc = "sass" /\ stack # << >> /\ Top.at = "rebind"
    /\ globals' = RebindFrom(globals, Assignments(themeMixin), 1, Top.theme)
    /\ stack' = SetTop([Top EXCEPT !.at = "content"])
    /\ done' = [done EXCEPT !.assigned = IF @ = "never" THEN @ ELSE "rebound"]
    /\ UNCHANGED pc
    /\ UNCHANGED buildVars

\* An item of the content block that uses the token variables: it reads the
\* global scope and changes nothing of it.
Declare ==
    /\ pc = "sass" /\ stack # << >>
    /\ Top.at = "content" /\ Top.block /\ Top.items < MaxItems
    /\ stack' = SetTop([Top EXCEPT !.items = @ + 1])
    /\ UNCHANGED <<globals, done, pc>>
    /\ UNCHANGED buildVars

\* An item of the content block that assigns a token variable in the global
\* scope: $<name>: <value> !global;
Assign ==
    /\ pc = "sass" /\ stack # << >>
    /\ Top.at = "content" /\ Top.block /\ Top.items < MaxItems
    /\ \E v \in DOMAIN globals :
          globals' = [globals EXCEPT ![v] = AssignedValue]
    /\ stack' = SetTop([Top EXCEPT !.items = @ + 1])
    /\ done' = [done EXCEPT !.assigned = "pending"]
    /\ UNCHANGED pc
    /\ UNCHANGED buildVars

\* @content is over (at once if the include has no block).
EndContent ==
    /\ pc = "sass" /\ stack # << >> /\ Top.at = "content"
    /\ stack' = SetTop([Top EXCEPT !.at = "reset"])
    /\ UNCHANGED <<globals, done, pc>>
    /\ UNCHANGED buildVars

\* @if $theme != $carbon--theme { @include carbon--theme; }
\* Sass gives up on an include nested too deep.
Reset ==
    /\ pc = "sass" /\ stack # << >> /\ Top.at = "reset"
    /\ IF ~NeedsReset(Top.theme)
       THEN /\ stack' = SetTop([Top EXCEPT !.at = "end"])
            /\ pc' = pc
       ELSE IF Len(stack) > MaxDepth + 1
       THEN /\ stack' = stack
            /\ pc' = "overflow"
       ELSE /\ stack' = SetTop([Top EXCEPT !.at = "end", !.resets = @ + 1])
                          \o <<Frame("", ResetArgument(Top.theme), FALSE, TRUE)>>
            /\ pc' = pc
    /\ UNCHANGED <<globals, done>>
    /\ UNCHANGED buildVars

\* The end of the mixin body: back to the including block, or to the top
\* level.
Return ==
    /\ pc = "sass" /\ stack # << >> /\ Top.at = "end"
    /\ stack' = IF Len(stack) = 1 THEN << >>
                ELSE LET below == stack[Len(stack) - 1] IN
                     SubSeq(stack, 1, Len(stack) - 2)
                       \o <<IF Top.reset THEN below
                            ELSE [below EXCEPT !.nested = Top.arg]>>
    /\ done' = IF Len(stack) = 1
               THEN [done EXCEPT !.arg = Top.arg, !.nested = Top.nested]
               ELSE done
    /\ UNCHANGED <<globals, pc>>
    /\ UNCHANGED buildVars

NextTheme ==
    \/ Include
    \/ Rebind
    \/ Declare
    \/ Assign
    \/ EndContent
    \/ Reset
    \/ Return

SpecTheme == InitTheme /\ [][NextTheme]_vars

(***************************************************************************)
(* Properties of the emitted mixin                                         *)
(***************************************************************************)
\* The token variables bound by lookup in `theme`.
BoundTo(theme) ==
    [v \in TokenVariables(themeMixin) |->
        LET i == CHOOSE i \in 1..Len(Assignments(themeMixin)) :
                    Assignments(themeMixin)[i][1] = v
        IN  MapGet(theme, Assignments(themeMixin)[i][2])]

\* C1 as stated: once a top-level include of carbon--theme has completed
\* (rebind, content, conditional reset), every token variable holds the
\* value looked up in the default theme map, whatever theme map it was given
\* and whatever its content block held.
C1_DefaultAfterTopLevel ==
    (pc = "sass" /\ stack = << >> /\ done.arg # "none") =>
        globals = BoundTo(DefaultMap)

\* C1, amended: once a top-level include has completed, every token variable
\* holds the value looked up in the default theme map if the include was
\* given a theme map that is not the default one, whatever its content block
\* held; and, whatever it was given, unless a content block assigned a token
\* variable and no include has rebound the variables since.
C1_DefaultUnlessAssignedLast ==
    (pc = "sass" /\ stack = << >> /\ done.arg # "none") =>
        /\ (done.arg # "" /\ ThemeMap(done.arg) # DefaultMap) =>
              globals = BoundTo(DefaultMap)
        /\ done.assigned # "pending" => globals = BoundTo(DefaultMap)

\* A top-level include of a non-default theme has completed whose content
\* assigned a token variable and held an include of a non-default theme.
C1_Witness ==
    /\ pc = "sass" /\ stack = << >>
    /\ done.arg \in ThemeNames /\ done.nested \in ThemeNames
    /\ ThemeMap(done.arg) # DefaultMap
    /\ ThemeMap(done.nested) # DefaultMap
    /\ BoundTo(ThemeMap(done.arg)) # BoundTo(DefaultMap)
    /\ done.assigned = "rebound"
    /\ globals = BoundTo(DefaultMap)

\* C9: the token variables are shared by nested includes: when an include of
\* a non-default theme nested in a content block has returned, the rest of
\* that block runs with every token variable at its default-theme value,
\* whatever theme the enclosing include was given and whatever the nested
\* content held, until the block itself assigns a token variable.
C9_NestedResetIsShared ==
    ( /\ stack # << >> /\ Top.at = "content"
      /\ Top.nested \in ThemeNames /\ done.assigned # "pending" ) =>
        (ThemeMap(Top.nested) # DefaultMap => globals = BoundTo(DefaultMap))

\* Under an include of a non-default theme T1, an include of a non-default
\* theme T2 has returned, content is still to run, and the token variables
\* hold default values that are not T1's.
C9_Witness ==
    /\ stack # << >> /\ Top.at = "content" /\ Top.items < MaxItems
    /\ Top.nested \in ThemeNames /\ Top.arg \in ThemeNames
    /\ done.assigned = "rebound"
    /\ ThemeMap(Top.nested) # DefaultMap
    /\ Top.theme # DefaultMap
    /\ globals = BoundTo(DefaultMap)
    /\ globals # BoundTo(Top.theme)

\* An include made by the reset block has no argument and no content, is
\* made by an include of a non-default theme that has run its content, and
\* makes no include itself; no include makes two.
ResetShape ==
    /\ pc # "overflow"
    /\ \A i \in 1..Len(stack) :
        /\ stack[i].resets <= 1
        /\ stack[i].resets = 1 =>
              stack[i].at = "end" /\ stack[i].theme # DefaultMap
        /\ stack[i].reset =>
              /\ stack[i].theme = DefaultMap
              /\ stack[i].arg = ""
              /\ ~stack[i].block
              /\ stack[i].resets = 0
              /\ i > 1
              /\ ~stack[i - 1].reset
              /\ stack[i - 1].at = "end"
              /\ stack[i - 1].resets = 1

\* The steps a running include can still take, counted generously: those
\* of its own body, those of the items its content block may still hold
\* (each a declaration, an assignment or a whole nested include), and those
\* of the include
\* its reset block may make.
BodySteps(at) ==
    CASE at = "rebind" -> 4 [] at = "content" -> 3
      [] at = "reset" -> 2 [] at = "end" -> 1

ResetSteps == BodySteps("rebind")

RECURSIVE IncludeSteps(_)
IncludeSteps(depth) ==
    BodySteps("rebind") + ResetSteps
      + MaxItems * (IF depth < MaxDepth THEN IncludeSteps(depth + 1) + 1 ELSE 1)

ItemSteps(depth) ==
    IF depth < MaxDepth THEN IncludeSteps(depth + 1) + 1 ELSE 1

StepsLeft(f, depth) ==
    BodySteps(f.at)
    + (IF f.block /\ f.at \in {"rebind", "content"}
       THEN (MaxItems - f.items) * ItemSteps(depth) ELSE 0)
    + (IF ~f.reset /\ f.at \in {"rebind", "content", "reset"}
       THEN ResetSteps ELSE 0)

RECURSIVE RankFrom(_, _)
RankFrom(st, i) ==
    IF i > Len(st) THEN 0 ELSE StepsLeft(st[i], i) + RankFrom(st, i + 1)

Rank(st) == RankFrom(st, 1)

\* C10: every include of carbon--theme terminates once its content does: it
\* re-includes itself at most once, after its content and only if its
\* argument is not the default theme map, and that include never
\* re-includes itself.  Sass never gives up on the nesting, and every step
\* of a running include leaves fewer steps to take.
C10_Terminates ==
    /\ []ResetShape
    /\ [][stack # << >> => Rank(stack') < Rank(stack)]_vars

\* The include made by a reset block has reached the end of its body.
C10_Witness ==
    /\ stack # << >>
    /\ Top.reset /\ Top.at = "end"
    /\ Len(stack) = MaxDepth + 1

(***************************************************************************)
(* Properties of the generator                                             *)
(***************************************************************************)
Range(q) == {q[i] : i \in 1..Len(q)}

\* Does `name` occur in `text`?
OccursIn(name, text) == \E p \in 1..Len(text) : MatchesAt(text, p, name)

\* The metadata could not be loaded, parsed or normalized.
MetadataFails ==
    source.kind # "doc" \/ \E i \in 1..Len(source.tokens) :
                              source.tokens[i].role.kind = "scalar"

\* The entry that the lookup of token in metadata.tokens finds: its index
\* in the list, which is that of the file when the file loaded (0 if the
\* lookup finds none, or metadata has no tokens list).
EntryOf(token) ==
    IF metadata.hasTokens /\ \E i \in 1..Len(metadata.tokens) :
                                 metadata.tokens[i].name = token
    THEN CHOOSE i \in 1..Len(metadata.tokens) :
            /\ metadata.tokens[i].name = token
            /\ \A j \in 1..(i - 1) : metadata.tokens[j].name # token
    ELSE 0

\* The variable declarations of a token-declarations body, in order, and
\* where they are.
IsDeclaration(line) ==
    Len(line) = 7 /\ line[1] = "$" /\ line[7] = ") !default;"

DeclarationAt(text) ==
    LET at == {n \in 1..Len(text) : IsDeclaration(text[n])}
    IN  [i \in 1..Cardinality(at) |->
            CHOOSE n \in at : Cardinality({m \in at : m < n}) = i - 1]

\* The doc comment of the i-th declaration: the lines that are not empty
\* between the declaration before it (or the import) and itself.
DocComment(text, i) ==
    LET at == DeclarationAt(text)
        from == IF i = 1 THEN Len(FILE_BANNER) + 1 ELSE at[i - 1]
    IN  SelectSeq(SubSeq(text, from + 1, at[i] - 1), LAMBDA l : l # << >>)

FixedAnnotation ==
    << <<"/// @type Color">>, <<"/// @access public">>,
       <<"/// @group @carbon/themes">> >>

\* C2: the token-declarations body holds exactly one variable declaration
\* per listed token, in list order, each bound by lookup of its public name
\* in the default theme map; a listed token without a metadata entry has
\* the fixed annotation block and nothing else for a doc comment.
C2_OneDeclarationPerToken ==
    tokensFile # NotBuilt =>
        /\ Len(DeclarationAt(tokensFile)) = Len(tokenColors)
        /\ \A i \in 1..Len(tokenColors) :
            /\ tokensFile[DeclarationAt(tokensFile)[i]]
                 = <<"$", Str(formatTokenName(tokenColors[i])), ": map-get(",
                     "$carbon--theme", ", ",
                     Str(formatTokenName(tokenColors[i])), ") !default;">>
            /\ EntryOf(tokenColors[i]) = 0
                  => DocComment(tokensFile, i) = FixedAnnotation

\* The body is built for two tokens, one with an annotated entry and one
\* with no entry, from a metadata file that loaded.
C2_Witness ==
    /\ tokensFile # NotBuilt
    /\ Len(tokenColors) = 2
    /\ ~MetadataFails
    /\ EntryOf(tokenColors[1]) = 0
    /\ EntryOf(tokenColors[2]) # 0
    /\ DocComment(tokensFile, 2) # FixedAnnotation

\* A written artifact holds prettier.format(body, prettierOptions); this is
\* the body, the text prettier was given.  Prettier is an external printer:
\* what is stated of the body is stated of the file up to its layout.
FormatArgument(a) == disk[a].body[2]

IsMapDeclaration(line) ==
    Len(line) = 3 /\ line[1] = "$carbon--theme--" /\ line[3] = ": ("

IsDefaultAlias(line) ==
    Len(line) = 4 /\ line[2] = ": $carbon--theme--" /\ line[4] = " !default;"

LinesAt(text, Is(_)) ==
    LET at == {n \in 1..Len(text) : Is(text[n])}
    IN  [i \in 1..Cardinality(at) |->
            CHOOSE n \in at : Cardinality({m \in at : m < n}) = i - 1]

\* C3: the theme-maps artifact is prettier.format of a body that holds one
\* map declaration per theme, in the order of the theme collection, then
\* exactly one default-alias
\* declaration, bound to the map of the default theme; the lines of a map
\* are its theme's keys, in the theme's key order.
C3_ThemeMapsInOrder ==
    disk[3].state = "written" =>
        LET text == FormatArgument(3)
            maps == LinesAt(text, IsMapDeclaration)
            alias == LinesAt(text, IsDefaultAlias)
        IN  /\ disk[3].body = Format(text)
            /\ Len(maps) = Len(themes)
            /\ Len(alias) = 1
            /\ text[alias[1]] = <<"$carbon--theme", ": $carbon--theme--",
                                  "white", " !default;">>
            /\ \A i \in 1..Len(themes) :
                LET entries == ThemeEntries(themes[i]) IN
                /\ maps[i] < alias[1]
                /\ text[maps[i]][2] = ThemeName(themes[i])
                /\ \A k \in 1..Len(entries) :
                      text[maps[i] + k]
                        = <<"  ", Str(formatTokenName(entries[k][1])), ": ",
                            entries[k][2], ",">>
                /\ text[maps[i] + Len(entries) + 1] = <<") !default;">>

\* The artifact is written for three themes with different key orders.
C3_Witness ==
    /\ disk[3].state = "written"
    /\ Len(themes) = 3
    /\ Len(ThemeEntries(themes[1])) < Len(ThemeEntries(themes[2]))

\* C5: a metadata file that cannot be loaded, parsed or normalized is
\* logged and stands for an empty metadata set: the run goes on, a run that
\* ends has written the three artifacts, and no declaration of the body
\* built, or of the body the written token-declarations artifact is
\* prettier.format of, carries a role, alias or deprecated annotation
\* (nothing of the partly normalized document is used).
C5_MetadataFailureIsEmpty ==
    (MetadataFails /\ pc # "load") =>
        /\ Len(log) >= 2
        /\ log[2] \in {"error: ENOENT", "error: YAMLException", "error: TypeError"}
        /\ metadata = EmptyMetadata
        /\ tokensFile # NotBuilt =>
              \A i \in 1..Len(tokenColors) :
                  DocComment(tokensFile, i) = FixedAnnotation
        /\ pc = "done" => \A a \in Artifacts : disk[a].state = "written"
        /\ disk[1].state = "written" =>
              /\ disk[1].body = Format(FormatArgument(1))
              /\ \A i \in 1..Len(tokenColors) :
                    DocComment(FormatArgument(1), i) = FixedAnnotation

\* Normalization threw on the second entry after rewriting the first, the
\* entry of a listed token; the run has ended with the three artifacts
\* written.
C5_Witness ==
    /\ pc = "done"
    /\ source.kind = "doc" /\ Len(source.tokens) = 2
    /\ source.tokens[2].role.kind = "scalar"
    /\ source.tokens[1].role.kind = "list"
    /\ parsed.tokens[1] # source.tokens[1]
    /\ source.tokens[1].name \in Range(tokenColors)
    /\ \A a \in Artifacts : disk[a].state = "written"

\* C6: when the format or the write of the k-th artifact fails the run
\* aborts: no later artifact is formatted or written, the earlier ones stay
\* as written, nothing is tried twice, and success is never reported.
C6_FailureAborts ==
    /\ \A a \in Artifacts : attempts[a] <= 1
    /\ failedAt # 0 =>
        /\ pc \in {"rejected", "failed"}
        /\ formatted = [i \in 1..failedAt |-> i]
        /\ \A a \in Artifacts :
            /\ a < failedAt =>
                  disk[a] = Written(Format(Body(a))) /\ attempts[a] = 1
            /\ a > failedAt =>
                  disk[a].state \in {"absent", "stale"} /\ attempts[a] = 0
        /\ \A n \in 1..Len(log) : log[n] # "success: Done!"
    /\ (pc \in {"rejected", "failed"} /\ failedAt = 0) =>
        /\ formatted = << >>
        /\ \A a \in Artifacts : disk[a].state \in {"absent", "stale"}
        /\ \A n \in 1..Len(log) : log[n] # "success: Done!"

\* The write of the second artifact failed and the run has ended: the first
\* is written, the third is the one of an earlier run.
C6_Witness ==
    /\ pc = "failed" /\ failedAt = 2
    /\ attempts[2] = 1
    /\ disk[1].state = "written"
    /\ disk[3].state = "stale"

\* The metadata file without its i-th entry, and the token-declarations body
\* the generator builds from it.
Without(i) ==
    [kind |-> "doc",
     tokens |-> SubSeq(source.tokens, 1, i - 1)
                  \o SubSeq(source.tokens, i + 1, Len(source.tokens))]

TokensFileWithout(i) == TokensFile(LoadResult(Without(i)).metadata, tokenColors)

\* The role texts of the entries that listed tokens are looked up to.
ListedRoleTexts ==
    UNION {Range(source.tokens[EntryOf(tokenColors[i])].role.items) :
             i \in {j \in 1..Len(tokenColors) : EntryOf(tokenColors[j]) # 0}}

\* C7 as stated, for a metadata file that loads: an entry whose name is not
\* in the color-token list is inert: the token-declarations body is the
\* same with and without it.
C7_UnlistedEntryIsInert ==
    (tokensFile # NotBuilt /\ ~MetadataFails) =>
        \A i \in 1..Len(source.tokens) :
            source.tokens[i].name \notin Range(tokenColors)
                => tokensFile = TokensFileWithout(i)

\* C7, amended: a well-formed metadata entry whose name is not in the
\* color-token list, and occurs in no role text of a listed token's entry,
\* is inert: the token-declarations body is the same with and without it.
C7_UnlistedUnnamedEntryIsInert ==
    (tokensFile # NotBuilt /\ source.kind = "doc") =>
        \A i \in 1..Len(source.tokens) :
            ( /\ source.tokens[i].name \notin Range(tokenColors)
              /\ source.tokens[i].role.kind # "scalar"
              /\ \A r \in ListedRoleTexts :
                    ~OccursIn(source.tokens[i].name, r) )
                => tokensFile = TokensFileWithout(i)

\* The body is built from a loaded file with such an entry and with the
\* entry of a listed token whose role is rewritten.
C7_Witness ==
    /\ tokensFile # NotBuilt /\ source.kind = "doc" /\ ~MetadataFails
    /\ Len(source.tokens) = 2 /\ Len(tokenColors) >= 1
    /\ source.tokens[2].name \notin Range(tokenColors)
    /\ \A r \in ListedRoleTexts : ~OccursIn(source.tokens[2].name, r)
    /\ EntryOf(tokenColors[1]) = 1
    /\ source.tokens[1].role.kind = "list"
    /\ metadata.tokens[1].role # source.tokens[1].role
    /\ tokensFile = TokensFileWithout(2)

\* The identifiers that have an entry in the metadata file.
EntryNames == {source.tokens[k].name : k \in 1..Len(source.tokens)}

\* The role comment the generator would write for the role texts as they
\* are in the metadata file.
LiteralRoleComment(e) ==
    <<"/// ", Str(Join(source.tokens[e].role.items, <<";", " ">>))>>

\* C8 as stated: a listed token whose role text contains no token
\* identifier other than its own has the literal role text for a comment.
C8_OwnNameIsNotSubstituted ==
    (tokensFile # NotBuilt /\ ~MetadataFails) =>
        \A i \in 1..Len(tokenColors) :
            LET e == EntryOf(tokenColors[i]) IN
            ( /\ e # 0
              /\ source.tokens[e].role.kind = "list"
              /\ \A n \in (TokenPool \cup EntryNames)
                            \ {tokenColors[i]} :
                    \A r \in Range(source.tokens[e].role.items) :
                        ~OccursIn(n, r) )
                => DocComment(tokensFile, i)[1] = LiteralRoleComment(e)

\* C8, amended: a listed token whose role text contains the identifier of no
\* metadata entry, its own included, has the literal role text for a
\* comment.
C8_RoleWithoutNamesIsLiteral ==
    (tokensFile # NotBuilt /\ ~MetadataFails) =>
        \A i \in 1..Len(tokenColors) :
            LET e == EntryOf(tokenColors[i]) IN
            ( /\ e # 0
              /\ source.tokens[e].role.kind = "list"
              /\ \A n \in EntryNames :
                    \A r \in Range(source.tokens[e].role.items) :
                        ~OccursIn(n, r) )
                => DocComment(tokensFile, i)[1] = LiteralRoleComment(e)

\* The body is built with the comment of a listed token whose role names a
\* token that has no metadata entry.
C8_Witness ==
    /\ tokensFile # NotBuilt /\ ~MetadataFails
    /\ \E i \in 1..Len(tokenColors) :
        LET e == EntryOf(tokenColors[i]) IN
        /\ e # 0
        /\ source.tokens[e].role.kind = "list"
        /\ \A n \in EntryNames :
              \A r \in Range(source.tokens[e].role.items) : ~OccursIn(n, r)
        /\ \E r \in Range(source.tokens[e].role.items) : OccursIn(ui01, r)
        /\ DocComment(tokensFile, i)[1] = LiteralRoleComment(e)

(***************************************************************************)
(* Properties of transformMetadata                                         *)
(***************************************************************************)
\* C4 as stated, for the role texts: transformMetadata is idempotent:
\* the call on its own output changes no role text.
C4_Idempotent ==
    [][pc = "pass1" =>
          \A i \in 1..Len(metadata.tokens) :
              metadata'.tokens[i].role = metadata.tokens[i].role]_vars

\* No public name of an entry contains the identifier of an entry.
NoNameInPublicName ==
    \A n, m \in EntryNames : ~OccursIn(n, formatTokenName(m))

\* An alias that is its own public name: no digit, no upper-case letter.
PlainAlias(alias) ==
    \A k \in 1..Len(alias.text) :
        alias.text[k] \notin numbers /\ alias.text[k] \notin DOMAIN toLowerCase

\* C4, amended: the call of transformMetadata on its own output changes no
\* role text if no public name of an entry contains the identifier of an
\* entry, and changes no alias that is its own public name.
C4_IdempotentOnPublicForm ==
    [][pc = "pass1" =>
          \A i \in 1..Len(metadata.tokens) :
              /\ NoNameInPublicName =>
                    metadata'.tokens[i].role = metadata.tokens[i].role
              /\ PlainAlias(source.tokens[i].alias) =>
                    metadata'.tokens[i].alias = metadata.tokens[i].alias]_vars

\* Two calls are done on a document of which no public name contains an
\* identifier: a role was rewritten, and an alias is its own public name.
C4_Witness ==
    /\ pc = "pass2" /\ NoNameInPublicName
    /\ metadata = parsed
    /\ \E i \in 1..Len(source.tokens) :
          /\ source.tokens[i].role.kind = "list"
          /\ metadata.tokens[i].role # source.tokens[i].role
    /\ \E i \in 1..Len(source.tokens) :
          /\ source.tokens[i].alias.kind = "name"
          /\ PlainAlias(source.tokens[i].alias)
          /\ metadata.tokens[i].alias = source.tokens[i].alias
====
